---- MODULE Spec2Model ----
(***************************************************************************)
(* Model of lib/econ.ts (the Profit Floor evaluator and the Money          *)
(* utilities that follow it in the same file).                              *)
(*                                                                         *)
(* Every function of the library is pure and synchronous.  A behaviour of  *)
(* the model is one call: Init draws the function that is called and its   *)
(* arguments, and the function's action computes what the call returns or  *)
(* throws.                                                                 *)
(*                                                                         *)
(* Numbers.  All amounts are integer cents and integer basis points.       *)
(* Math.round(a / b) is modelled exactly (nearest integer, a half rounds   *)
(* towards +Infinity), Math.ceil(a / b) and Math.floor(a / b) likewise.    *)
(* An optional field or parameter is <<>> (undefined) or <<v>>.            *)
(* A ladder multiplier is kept in hundredths (115 stands for 1.15).        *)
(***************************************************************************)
EXTENDS Integers, Sequences, FiniteSets, TLC

VARIABLES
    call,   \* the function that is called
    args,   \* its arguments
    ret     \* Pending, or what the call returned or threw

vars == <<call, args, ret>>

(***************************************************************************)
(* Bounds of the model                                                     *)
(***************************************************************************)
MaxPriceCents == 8
MaxCogsCents == 4
MaxSteps == 2
MaxVariants == 2
MaxCharmCents == 205
MaxMoneyCents == 2

(***************************************************************************)
(* Call results                                                            *)
(***************************************************************************)
Pending == [status |-> "pending"]
Return(v) == [status |-> "return", value |-> v]
Throw(msg) == [status |-> "throw", error |-> msg]

(* `x ?? d`, a destructuring default `x = d`, a default parameter *)
OrDefault(opt, d) == IF opt = <<>> THEN d ELSE opt[1]

(***************************************************************************)
(* Arithmetic of the JavaScript the code uses                              *)
(***************************************************************************)
(* Mutant of MathRound: the fraction is dropped (Math.floor for Math.round) *)
MathRoundDown(num, den) == num \div den

(* Math.round(num / den), den > 0 *)
MathRound(num, den) == (2 * num + den) \div (2 * den)

(* Mutant of MathCeil: rounds to nearest (Math.round for Math.ceil) *)
MathCeilNearest(num, den) == (2 * num + den) \div (2 * den)

(* Math.ceil(num / den), den > 0 *)
MathCeil(num, den) == -((-num) \div den)

(* Math.floor(num / den), den > 0 *)
MathFloor(num, den) == num \div den

(* Number.POSITIVE_INFINITY: larger than every amount of the model *)
POSITIVE_INFINITY == 2147483647

(***************************************************************************)
(* Tables                                                                  *)
(***************************************************************************)
DEFAULT_FLOORS_BPS ==
    [physical |-> 3000, digital |-> 7000, service |-> 2500, flip |-> 2500]

DEFAULT_BUFFER_BPS == 300

PLATFORM_FEES ==
    [etsy         |-> [pctBps |-> 650 + 325, fixedCents |-> 0,  label |-> "Etsy + payment (~9.75%)"],
     ebay         |-> [pctBps |-> 1300,      fixedCents |-> 0,  label |-> "eBay final value (avg)"],
     gumroad      |-> [pctBps |-> 1000,      fixedCents |-> 30, label |-> "Gumroad 10% + $0.30"],
     shopify      |-> [pctBps |-> 290,       fixedCents |-> 30, label |-> "Stripe 2.9% + $0.30"],
     tiktok_shop  |-> [pctBps |-> 600,       fixedCents |-> 0,  label |-> "TikTok Shop (~6%)"],
     stripe_links |-> [pctBps |-> 290,       fixedCents |-> 30, label |-> "Stripe 2.9% + $0.30"],
     other        |-> [pctBps |-> 300,       fixedCents |-> 30, label |-> "Generic PSP 3% + $0.30"]]

(* PLATFORM_FEES[platform] ?? PLATFORM_FEES.other *)
Preset(platform) ==
    IF platform \in DOMAIN PLATFORM_FEES
    THEN PLATFORM_FEES[platform]
    ELSE PLATFORM_FEES.other

(***************************************************************************)
(* The evaluator                                                           *)
(***************************************************************************)
(* Mutant of mulBps: the rate taken per mille instead of per ten thousand *)
mulBpsPerMille(amountCents, rateBps) == MathRound(amountCents * rateBps, 1000)

mulBps(amountCents, rateBps) == MathRound(amountCents * rateBps, 10000)

computeFeesCents(priceCents, platform, overridePctBps, overrideFixedCents) ==
    LET preset == Preset(platform)
        pctBps == OrDefault(overridePctBps, preset.pctBps)
        fixedCents == OrDefault(overrideFixedCents, preset.fixedCents)
        feesCents == mulBps(priceCents, pctBps) + fixedCents
    IN  [feesCents |-> feesCents, pctBps |-> pctBps,
         fixedCents |-> fixedCents, label |-> preset.label]

evaluateEcon(input) ==
    LET priceCents == input.priceCents
        cogsCents == input.cogsCents
        shippingCents == input.shippingCents
        packagingCents == OrDefault(input.packagingCents, 0)
        bufferBps == OrDefault(input.bufferBps, DEFAULT_BUFFER_BPS)
        floorBps == OrDefault(input.floorBps, DEFAULT_FLOORS_BPS[input.kind])
        fees == computeFeesCents(priceCents, input.platform,
                                 input.overridePctBps, input.overrideFixedCents)
        bufferCents == mulBps(priceCents, bufferBps)
        profitCents == priceCents -
            (cogsCents + shippingCents + packagingCents + fees.feesCents + bufferCents)
        marginBps == MathRound(profitCents * 10000, priceCents)
        pass == marginBps >= floorBps
    IN  IF priceCents <= 0
        THEN Throw("priceCents must be > 0")
        ELSE Return([priceCents |-> priceCents,
                     feesCents |-> fees.feesCents,
                     bufferCents |-> bufferCents,
                     cogsCents |-> cogsCents,
                     shippingCents |-> shippingCents,
                     packagingCents |-> packagingCents,
                     profitCents |-> profitCents,
                     marginBps |-> marginBps,
                     pass |-> pass,
                     floorBps |-> floorBps,
                     breakdown |-> [feeLabel |-> fees.label,
                                    platformPctBps |-> fees.pctBps,
                                    fixedFeeCents |-> fees.fixedCents]])

minPriceForFloorCents(input) ==
    LET packagingCents == OrDefault(input.packagingCents, 0)
        bufferBps == OrDefault(input.bufferBps, DEFAULT_BUFFER_BPS)
        floorBps == OrDefault(input.floorBps, DEFAULT_FLOORS_BPS[input.kind])
        preset == Preset(input.platform)
        pctBps == OrDefault(input.overridePctBps, preset.pctBps)
        fixedCents == OrDefault(input.overrideFixedCents, preset.fixedCents)
        denomBps == 10000 - pctBps - bufferBps - floorBps
        rhsCents == input.cogsCents + input.shippingCents + packagingCents + fixedCents
    IN  IF denomBps <= 0
        THEN POSITIVE_INFINITY
        ELSE MathCeil(rhsCents * 10000, denomBps)

(* mulBps returns an integer, so `/ 1` and Math.floor leave headroomCents as it is *)
maxCogsForFloorCents(input) ==
    LET packagingCents == OrDefault(input.packagingCents, 0)
        bufferBps == OrDefault(input.bufferBps, DEFAULT_BUFFER_BPS)
        floorBps == OrDefault(input.floorBps, DEFAULT_FLOORS_BPS[input.kind])
        preset == Preset(input.platform)
        pctBps == OrDefault(input.overridePctBps, preset.pctBps)
        fixedCents == OrDefault(input.overrideFixedCents, preset.fixedCents)
        headroomCents ==
            mulBps(input.priceCents, 10000 - pctBps - bufferBps - floorBps)
                - (input.shippingCents + packagingCents + fixedCents)
    IN  MathFloor(headroomCents, 1)

(***************************************************************************)
(* Charm rounding and the price ladder                                     *)
(***************************************************************************)
Charms == {".99", ".95", ".90", "none"}

endings == [c \in Charms |->
    IF c = ".99" THEN 99 ELSE IF c = ".95" THEN 95 ELSE IF c = ".90" THEN 90 ELSE 0]

(* ensure: `minCents && n < minCents ? minCents : n`; a minCents of 0 is falsy *)
ensure(n, minCents) ==
    IF minCents # <<>> /\ minCents[1] # 0 /\ n < minCents[1] THEN minCents[1] ELSE n

roundToCharm(priceCents, charmArg, minCents) ==
    LET charm == OrDefault(charmArg, ".99")
        dollars == MathFloor(priceCents, 100)
        target == dollars * 100 + endings[charm]
    IN  IF charm = "none" THEN ensure(priceCents, minCents)
        ELSE IF target >= priceCents THEN ensure(target, minCents)
        ELSE ensure((dollars + 1) * 100 + endings[charm], minCents)

(* the default of `steps`: [1.0, 1.15, 1.30] *)
DEFAULT_STEPS == <<100, 115, 130>>

(* baseInput with priceCents set: { ...baseInput, priceCents } *)
WithPrice(baseInput, priceCents) == [priceCents |-> priceCents] @@ baseInput

(* Array.from(new Set(ladder)): the first occurrence of each value, in order *)
RECURSIVE Dedupe(_)
Dedupe(s) ==
    IF s = <<>> THEN <<>>
    ELSE LET front == Dedupe(SubSeq(s, 1, Len(s) - 1))
             last == s[Len(s)]
         IN  IF \E i \in 1..Len(front) : front[i] = last
             THEN front
             ELSE Append(front, last)

(* One rung of steps.map: the price, or the error evaluateEcon throws.       *)
(* Math.ceil(p0 * m): for the multipliers of the model the product is kept   *)
(* in hundredths; p0 * 1.0 is exact.                                         *)
LadderRung(baseInput, p0, m, i, charm) ==
    LET raw == MathCeil(p0 * m, 100)
        charmed == roundToCharm(raw, <<charm>>, <<p0>>)
        evalRes == evaluateEcon(WithPrice(baseInput, charmed))
    IN  IF evalRes.status = "throw" THEN evalRes
        ELSE IF ~evalRes.value.pass /\ i = 1
             THEN Return(roundToCharm(p0 + 1, <<charm>>, <<p0>>))
             ELSE Return(charmed)

(* With p0 = Infinity every rung is Infinity: Math.ceil and roundToCharm keep *)
(* it, evaluateEcon does not throw (Infinity <= 0 is false) and its pass is   *)
(* false (the margin is NaN), and roundToCharm(Infinity + 1) is Infinity.     *)
buildPriceLadderCents(baseInput, stepsArg, charmArg) ==
    LET steps == OrDefault(stepsArg, DEFAULT_STEPS)
        charm == OrDefault(charmArg, ".99")
        p0 == minPriceForFloorCents(baseInput)
        rungs == [i \in 1..Len(steps) |-> LadderRung(baseInput, p0, steps[i], i, charm)]
        thrown == {i \in 1..Len(steps) : rungs[i].status = "throw"}
        first == CHOOSE i \in thrown : \A j \in thrown : i <= j
    IN  IF p0 = POSITIVE_INFINITY
        THEN Return(Dedupe([i \in 1..Len(steps) |-> POSITIVE_INFINITY]))
        ELSE IF thrown # {} THEN rungs[first]
        ELSE Return(Dedupe([i \in 1..Len(steps) |-> rungs[i].value]))

(* Mutant of evaluateVariants: a variant whose evaluation throws is left out *)
evaluateVariantsSkipping(variants, common) ==
    LET res == [i \in 1..Len(variants) |->
                  evaluateEcon([priceCents |-> variants[i].priceCents,
                                cogsCents |-> variants[i].cogsCents,
                                shippingCents |-> variants[i].shippingCents,
                                packagingCents |-> <<OrDefault(variants[i].packagingCents, 0)>>]
                               @@ common)]
        kept == SelectSeq([i \in 1..Len(variants) |-> i],
                          LAMBDA i : res[i].status = "return")
    IN  Return([k \in 1..Len(kept) |->
                   [sku |-> variants[kept[k]].sku] @@ res[kept[k]].value])

(* variants.map(v => ({ sku: v.sku, ...evaluateEcon({...common, ...v}) })):   *)
(* the first evaluation that throws ends the map                            *)
evaluateVariants(variants, common) ==
    LET res == [i \in 1..Len(variants) |->
                  evaluateEcon([priceCents |-> variants[i].priceCents,
                                cogsCents |-> variants[i].cogsCents,
                                shippingCents |-> variants[i].shippingCents,
                                packagingCents |-> <<OrDefault(variants[i].packagingCents, 0)>>]
                               @@ common)]
        thrown == {i \in 1..Len(variants) : res[i].status = "throw"}
        first == CHOOSE i \in thrown : \A j \in thrown : i <= j
    IN  IF thrown # {} THEN res[first]
        ELSE Return([i \in 1..Len(variants) |->
                        [sku |-> variants[i].sku] @@ res[i].value])

(***************************************************************************)
(* Money                                                                   *)
(***************************************************************************)
CurrencyCodes == {"USD", "AUD", "NZD", "CAD", "EUR", "GBP", "JPY", "SGD", "HKD"}

DECIMALS == [c \in CurrencyCodes |-> IF c = "JPY" THEN 0 ELSE 2]

(* new Money(cents, currency) *)
Money(cents, currency) == [cents |-> cents, currency |-> currency]

(* Money.fromCents on an integer: Math.trunc leaves it, and it is finite *)
fromCents(cents, currency) == Money(cents, currency)

(* Mutant of assertSameCurrency: the check is missing *)
assertAnyCurrency(this, other) == TRUE

(* TRUE when assertSameCurrency returns, FALSE when it throws 'Currency mismatch' *)
assertSameCurrency(this, other) == this.currency = other.currency

add(this, other) ==
    IF ~assertSameCurrency(this, other) THEN Throw("Currency mismatch")
    ELSE Return(Money(this.cents + other.cents, this.currency))

sub(this, other) ==
    IF ~assertSameCurrency(this, other) THEN Throw("Currency mismatch")
    ELSE Return(Money(this.cents - other.cents, this.currency))

(* clamp(min) with max undefined; min is <<>> or <<Money>> *)
clamp(this, min) ==
    IF min = <<>> THEN Return(this)
    ELSE IF ~assertSameCurrency(this, min[1]) THEN Throw("Currency mismatch")
    ELSE Return(Money(IF this.cents < min[1].cents THEN min[1].cents ELSE this.cents,
                      this.currency))

(* Mutant of withCharm: a price already on the charm ending is bumped a      *)
(* dollar (<= for <)                                                         *)
withCharmBumpsEqual(this, charmArg, min) ==
    LET charm == OrDefault(charmArg, ".99")
        d == DECIMALS[this.currency]
        dollars == MathFloor(this.cents, 100)
        ending == IF charm = ".99" THEN 99 ELSE IF charm = ".95" THEN 95 ELSE 90
        c1 == dollars * 100 + ending
        c2 == IF c1 <= this.cents THEN (dollars + 1) * 100 + ending ELSE c1
        c3 == IF min # <<>> /\ c2 < min[1].cents
              THEN (MathFloor(min[1].cents, 100) + 1) * 100 + ending
              ELSE c2
    IN  IF charm = "none" \/ d = 0
        THEN (IF min # <<>> THEN clamp(this, min) ELSE Return(this))
        ELSE Return(fromCents(c3, this.currency))

(* min is <<>> or <<Money>>: an object is always truthy *)
withCharm(this, charmArg, min) ==
    LET charm == OrDefault(charmArg, ".99")
        d == DECIMALS[this.currency]
        dollars == MathFloor(this.cents, 100)
        ending == IF charm = ".99" THEN 99 ELSE IF charm = ".95" THEN 95 ELSE 90
        c1 == dollars * 100 + ending
        c2 == IF c1 < this.cents THEN (dollars + 1) * 100 + ending ELSE c1
        c3 == IF min # <<>> /\ c2 < min[1].cents
              THEN (MathFloor(min[1].cents, 100) + 1) * 100 + ending
              ELSE c2
    IN  IF charm = "none" \/ d = 0
        THEN (IF min # <<>> THEN clamp(this, min) ELSE Return(this))
        ELSE Return(fromCents(c3, this.currency))

(* `minCents ? Money.fromCents(minCents, currency) : undefined`: 0 is falsy *)
roundCentsToCharm(cents, currency, charmArg, minCents) ==
    LET min == IF minCents # <<>> /\ minCents[1] # 0
               THEN <<fromCents(minCents[1], currency)>>
               ELSE <<>>
        m == withCharm(fromCents(cents, currency), charmArg, min)
    IN  IF m.status = "throw" THEN m ELSE Return(m.value.cents)

(***************************************************************************)
(* The inputs the model draws                                              *)
(***************************************************************************)
Platforms == (DOMAIN PLATFORM_FEES) \cup {"amazon"}   \* "amazon": no preset
ProductKinds == DOMAIN DEFAULT_FLOORS_BPS

PriceCentsValues == (-1..MaxPriceCents) \cup {32, 1000, 1490}
CogsCentsValues == (0..MaxCogsCents) \cup {155, 500}
ShippingCentsValues == {0, 320}
PackagingCentsValues == {<<>>, <<25>>}

(* the optional overrides: none, any one of them, or all four *)
Overrides ==
    {o \in [overridePctBps : {<<>>, <<2700>>},
            overrideFixedCents : {<<>>, <<0>>},
            bufferBps : {<<>>, <<0>>},
            floorBps : {<<>>, <<7400>>}] :
        Len(o.overridePctBps) + Len(o.overrideFixedCents)
            + Len(o.bufferBps) + Len(o.floorBps) \in {0, 1, 4}}

(* Omit<EconInputs, 'priceCents' | 'cogsCents' | 'shippingCents' | 'packagingCents'> *)
CommonInputs ==
    {[platform |-> p, kind |-> k] @@ o :
        p \in Platforms, k \in ProductKinds, o \in Overrides}

Costs ==
    [cogsCents : CogsCentsValues, shippingCents : ShippingCentsValues,
     packagingCents : PackagingCentsValues]

(* Omit<EconInputs, 'priceCents'> *)
BaseInputs == {c @@ common : c \in Costs, common \in CommonInputs}

EconInputs == {WithPrice(b, p) : b \in BaseInputs, p \in PriceCentsValues}

(* the base inputs the ladder is built from: no shipping, no packaging *)
LadderBaseInputs ==
    {b \in BaseInputs : b.shippingCents = 0 /\ b.packagingCents = <<>>}

Multipliers == {100, 115}
StepLists == UNION {[1..n -> Multipliers] : n \in 0..MaxSteps}
StepsArgs == {<<>>} \cup {<<s>> : s \in StepLists}
CharmArgs == {<<>>} \cup {<<c>> : c \in Charms}

VariantInputs ==
    [sku : {"sku"}, priceCents : {-1, 0, 1490}, cogsCents : {500},
     shippingCents : {320}, packagingCents : PackagingCentsValues]
VariantLists == UNION {[1..n -> VariantInputs] : n \in 0..MaxVariants}

MinCentsArgs == {<<>>} \cup {<<m>> : m \in {0, 50, 99, 100, 195, 250, 299}}
Moneys == [cents : -MaxMoneyCents..MaxMoneyCents, currency : CurrencyCodes]

(***************************************************************************)
(* The state machine: one call per behaviour                               *)
(***************************************************************************)
Init ==
    /\ ret = Pending
    /\ \/ call = "evaluateEcon" /\ args \in EconInputs
       \/ call = "minPriceForFloorCents" /\ args \in BaseInputs
       \/ call = "maxCogsForFloorCents" /\ args \in EconInputs
       \/ call = "roundToCharm"
          /\ args \in [priceCents : 0..MaxCharmCents, charm : CharmArgs,
                       minCents : MinCentsArgs]
       \/ call = "buildPriceLadderCents"
          /\ args \in [baseInput : LadderBaseInputs, steps : StepsArgs, charm : CharmArgs]
       \/ call = "evaluateVariants"
          /\ args \in [variants : VariantLists, common : CommonInputs]
       \/ call \in {"Money.add", "Money.sub"}
          /\ args \in [this : Moneys, other : Moneys]
       \/ call = "roundCentsToCharm"
          /\ args \in [cents : 0..MaxCharmCents, currency : CurrencyCodes,
                       charm : CharmArgs, minCents : MinCentsArgs]

EvaluateEcon ==
    /\ call = "evaluateEcon" /\ ret = Pending
    /\ ret' = evaluateEcon(args)
    /\ UNCHANGED <<call, args>>

MinPriceForFloorCents ==
    /\ call = "minPriceForFloorCents" /\ ret = Pending
    /\ ret' = Return(minPriceForFloorCents(args))
    /\ UNCHANGED <<call, args>>

MaxCogsForFloorCents ==
    /\ call = "maxCogsForFloorCents" /\ ret = Pending
    /\ ret' = Return(maxCogsForFloorCents(args))
    /\ UNCHANGED <<call, args>>

RoundToCharm ==
    /\ call = "roundToCharm" /\ ret = Pending
    /\ ret' = Return(roundToCharm(args.priceCents, args.charm, args.minCents))
    /\ UNCHANGED <<call, args>>

BuildPriceLadderCents ==
    /\ call = "buildPriceLadderCents" /\ ret = Pending
    /\ ret' = buildPriceLadderCents(args.baseInput, args.steps, args.charm)
    /\ UNCHANGED <<call, args>>

EvaluateVariants ==
    /\ call = "evaluateVariants" /\ ret = Pending
    /\ ret' = evaluateVariants(args.variants, args.common)
    /\ UNCHANGED <<call, args>>

MoneyAdd ==
    /\ call = "Money.add" /\ ret = Pending
    /\ ret' = add(args.this, args.other)
    /\ UNCHANGED <<call, args>>

MoneySub ==
    /\ call = "Money.sub" /\ ret = Pending
    /\ ret' = sub(args.this, args.other)
    /\ UNCHANGED <<call, args>>

RoundCentsToCharm ==
    /\ call = "roundCentsToCharm" /\ ret = Pending
    /\ ret' = roundCentsToCharm(args.cents, args.currency, args.charm, args.minCents)
    /\ UNCHANGED <<call, args>>

Next ==
    \/ EvaluateEcon
    \/ MinPriceForFloorCents
    \/ MaxCogsForFloorCents
    \/ RoundToCharm
    \/ BuildPriceLadderCents
    \/ EvaluateVariants
    \/ MoneyAdd
    \/ MoneySub
    \/ RoundCentsToCharm

Spec == Init /\ [][Next]_vars

(***************************************************************************)
(* Claims                                                                  *)
(***************************************************************************)
Returned == ret.status = "return"
Done == ret.status # "pending"
Abs(x) == IF x < 0 THEN -x ELSE x

(* the effective values of an input, read from the tables *)
EffPackagingCents(input) ==
    IF input.packagingCents = <<>> THEN 0 ELSE input.packagingCents[1]
EffFloorBps(input) ==
    IF input.floorBps = <<>> THEN DEFAULT_FLOORS_BPS[input.kind] ELSE input.floorBps[1]
EffBufferBps(input) ==
    IF input.bufferBps = <<>> THEN DEFAULT_BUFFER_BPS ELSE input.bufferBps[1]
EffPctBps(input) ==
    IF input.overridePctBps # <<>> THEN input.overridePctBps[1]
    ELSE IF input.platform \in DOMAIN PLATFORM_FEES
         THEN PLATFORM_FEES[input.platform].pctBps
         ELSE PLATFORM_FEES.other.pctBps
EffFixedCents(input) ==
    IF input.overrideFixedCents # <<>> THEN input.overrideFixedCents[1]
    ELSE IF input.platform \in DOMAIN PLATFORM_FEES
         THEN PLATFORM_FEES[input.platform].fixedCents
         ELSE PLATFORM_FEES.other.fixedCents

(* m is x = num / den rounded to the nearest integer, a half going up *)
IsNearest(m, num, den) ==
    /\ 2 * m * den - den <= 2 * num
    /\ 2 * num < 2 * m * den + den

(* C1: for every input with priceCents > 0 evaluateEcon returns               *)
(* profitCents = priceCents - (cogs + shipping + packaging + fees + buffer),  *)
(* marginBps = round(profitCents * 10000 / priceCents), and                   *)
(* pass = (marginBps >= floorBps), floorBps being the override or else the    *)
(* default floor of the product kind.                                         *)
C1_EvaluateEconFormulas ==
    (call = "evaluateEcon" /\ Done /\ args.priceCents > 0) =>
        /\ Returned
        /\ ret.value.profitCents =
              args.priceCents - (args.cogsCents + args.shippingCents
                  + EffPackagingCents(args) + ret.value.feesCents
                  + ret.value.bufferCents)
        /\ IsNearest(ret.value.marginBps, ret.value.profitCents * 10000, args.priceCents)
        /\ ret.value.floorBps = EffFloorBps(args)
        /\ ret.value.pass = (ret.value.marginBps >= EffFloorBps(args))

(* C1 witness: an evaluation with packaging, a loss, and a margin that is a   *)
(* half (so that the rounding shows)                                          *)
C1_Witness ==
    /\ call = "evaluateEcon" /\ Returned
    /\ args.packagingCents # <<>>
    /\ ret.value.profitCents < 0
    /\ (2 * ret.value.profitCents * 10000) % args.priceCents = 0
    /\ (ret.value.profitCents * 10000) % args.priceCents # 0

(* C5: evaluateEcon throws exactly when priceCents <= 0, and evaluateVariants *)
(* throws as a whole exactly when one of its variants has priceCents <= 0;    *)
(* otherwise it returns one result per variant.                               *)
C5_ThrowsIffPriceNotPositive ==
    /\ (call = "evaluateEcon" /\ Done) =>
          ((ret.status = "throw") <=> (args.priceCents <= 0))
    /\ (call = "evaluateVariants" /\ Done) =>
          /\ (ret.status = "throw") <=>
                (\E i \in 1..Len(args.variants) : args.variants[i].priceCents <= 0)
          /\ Returned => Len(ret.value) = Len(args.variants)

(* C5 witness: two variants, the first valid and the second with price <= 0 *)
C5_Witness ==
    /\ call = "evaluateVariants" /\ ret.status = "throw"
    /\ Len(args.variants) = 2
    /\ args.variants[1].priceCents > 0
    /\ args.variants[2].priceCents <= 0

(* the result r of Money.add / Money.sub (c) on the operands a *)
MoneyResultRight(c, a, r) ==
    IF a.this.currency # a.other.currency
    THEN r.status = "throw" /\ r.error = "Currency mismatch"
    ELSE /\ r.status = "return"
         /\ r.value.currency = a.this.currency
         /\ r.value.cents = (IF c = "Money.add"
                             THEN a.this.cents + a.other.cents
                             ELSE a.this.cents - a.other.cents)

(* C6: Money.add and Money.sub throw a currency mismatch when the operands'   *)
(* currencies differ, and otherwise return a new Money of that currency with  *)
(* the exact sum or difference; the operands are left as they were.           *)
C6_MoneyAddSub ==
    [][(call \in {"Money.add", "Money.sub"}) =>
          (args' = args /\ MoneyResultRight(call, args, ret'))]_vars

(* C6 witness: a sum of two non-zero amounts of one currency *)
C6_Witness ==
    /\ call = "Money.add" /\ Returned
    /\ args.this.cents # 0 /\ args.other.cents # 0
    /\ args.this.cents + args.other.cents # 0

(* C7: minPriceForFloorCents returns the infinite sentinel exactly when       *)
(* pctBps + bufferBps + floorBps >= 10000, and otherwise the smallest integer *)
(* p with p * (10000 - pctBps - bufferBps - floorBps) >= rhsCents * 10000.    *)
C7_MinPriceIsSmallest ==
    (call = "minPriceForFloorCents" /\ Done) =>
        LET denomBps == 10000 - EffPctBps(args) - EffBufferBps(args) - EffFloorBps(args)
            rhsCents == args.cogsCents + args.shippingCents
                            + EffPackagingCents(args) + EffFixedCents(args)
            p == ret.value
        IN  /\ Returned
            /\ (p = POSITIVE_INFINITY) <=> (denomBps <= 0)
            /\ denomBps > 0 =>
                  /\ p * denomBps >= rhsCents * 10000
                  /\ (p - 1) * denomBps < rhsCents * 10000

(* C7 witness: a finite price that the ceiling had to round up *)
C7_Witness ==
    /\ call = "minPriceForFloorCents" /\ Returned
    /\ ret.value # POSITIVE_INFINITY
    /\ ret.value > 0
    /\ args.overridePctBps # <<>>
    /\ (ret.value * (10000 - EffPctBps(args) - EffBufferBps(args) - EffFloorBps(args)))
          > (args.cogsCents + args.shippingCents + EffPackagingCents(args)
                + EffFixedCents(args)) * 10000

(* the call minPriceForFloorCents returned a finite price *)
MinPriceFinite ==
    call = "minPriceForFloorCents" /\ Returned /\ ret.value # POSITIVE_INFINITY

(* evaluateEcon at the price the call returned, the other inputs the same *)
EvalAtMinPrice == evaluateEcon(WithPrice(args, ret.value))

LadderReturned ==
    /\ call = "buildPriceLadderCents" /\ Returned
    /\ minPriceForFloorCents(args.baseInput) # POSITIVE_INFINITY
    /\ \A i \in 1..Len(OrDefault(args.steps, DEFAULT_STEPS)) :
          OrDefault(args.steps, DEFAULT_STEPS)[i] >= 100

(* C3: every price of the list buildPriceLadderCents returns passes the       *)
(* floor: evaluateEcon at that rung, with the same base input, has pass true. *)
C3_EveryRungPasses ==
    LadderReturned =>
        \A i \in 1..Len(ret.value) :
            LET e == evaluateEcon(WithPrice(args.baseInput, ret.value[i]))
            IN  e.status = "return" /\ e.value.pass

(* C9: for non-decreasing multipliers >= 1 the list buildPriceLadderCents     *)
(* returns is strictly ascending (so it holds no price twice), also when the  *)
(* fallback of the first rung is taken.                                       *)
C9_LadderStrictlyAscending ==
    (/\ LadderReturned
     /\ \A i \in 1..(Len(OrDefault(args.steps, DEFAULT_STEPS)) - 1) :
           OrDefault(args.steps, DEFAULT_STEPS)[i]
               <= OrDefault(args.steps, DEFAULT_STEPS)[i + 1])
    => \A i \in 1..(Len(ret.value) - 1) : ret.value[i] < ret.value[i + 1]

(* C4: for every priceCents >= 0, charm .99 / .95 / .90 and optional minCents *)
(* roundToCharm returns a value that is not below priceCents, not below       *)
(* minCents when it is given, and that ends in the charm's two digits.        *)
C4_RoundToCharmEnding ==
    (/\ call = "roundToCharm" /\ Returned
     /\ args.priceCents >= 0
     /\ OrDefault(args.charm, ".99") # "none")
    => /\ ret.value >= args.priceCents
       /\ args.minCents # <<>> => ret.value >= args.minCents[1]
       /\ ret.value % 100 =
             (IF OrDefault(args.charm, ".99") = ".99" THEN 99
              ELSE IF OrDefault(args.charm, ".99") = ".95" THEN 95 ELSE 90)

(* C8: maxCogsForFloorCents returns the largest cost that still meets the     *)
(* floor: for priceCents > 0 and a result c >= 0, evaluateEcon with           *)
(* cogsCents = c passes and evaluateEcon with cogsCents = c + 1 does not.     *)
C8_MaxCogsIsMaximal ==
    (/\ call = "maxCogsForFloorCents" /\ Returned
     /\ args.priceCents > 0
     /\ ret.value >= 0)
    => /\ evaluateEcon([args EXCEPT !.cogsCents = ret.value]).value.pass
       /\ ~evaluateEcon([args EXCEPT !.cogsCents = ret.value + 1]).value.pass

(* C10: for a 2-decimal currency roundCentsToCharm (Money.withCharm) returns  *)
(* what roundToCharm returns for the same cents, charm and minCents.          *)
C10_CharmRoundingsAgree ==
    (/\ call = "roundCentsToCharm" /\ Done
     /\ DECIMALS[args.currency] = 2)
    => /\ Returned
       /\ ret.value = roundToCharm(args.cents, args.charm, args.minCents)

(* the two digits a charm ends in *)
CharmEnding(charmArg) ==
    IF OrDefault(charmArg, ".99") = ".99" THEN 99
    ELSE IF OrDefault(charmArg, ".99") = ".95" THEN 95 ELSE 90

(* the smallest price >= cents that ends in the charm's two digits *)
CharmAtOrAbove(cents, charmArg) ==
    CHOOSE v \in cents..(cents + 99) : v % 100 = CharmEnding(charmArg)

(* minCents is given, is not 0, and exceeds the charm price of cents *)
MinBinds(cents, charmArg, minCents) ==
    /\ minCents # <<>>
    /\ minCents[1] # 0
    /\ minCents[1] > CharmAtOrAbove(cents, charmArg)

(* C10 amended: for a 2-decimal currency and a charm .99 / .95 / .90 the two  *)
(* roundings agree whenever minCents is absent, 0 or not above the charm      *)
(* price of cents; when minCents is above it, roundToCharm returns minCents   *)
(* itself and roundCentsToCharm returns                                       *)
(* (floor(minCents / 100) + 1) * 100 + ending.  With charm 'none' both return *)
(* the larger of cents and minCents.                                          *)
C10_CharmRoundingsAgreeUnlessMinBinds ==
    (/\ call = "roundCentsToCharm" /\ Done
     /\ DECIMALS[args.currency] = 2)
    => /\ Returned
       /\ IF OrDefault(args.charm, ".99") = "none"
          THEN /\ ret.value = roundToCharm(args.cents, args.charm, args.minCents)
               /\ ret.value = (IF args.minCents # <<>> /\ args.minCents[1] > args.cents
                               THEN args.minCents[1] ELSE args.cents)
          ELSE IF MinBinds(args.cents, args.charm, args.minCents)
          THEN /\ roundToCharm(args.cents, args.charm, args.minCents) = args.minCents[1]
               /\ ret.value = ((args.minCents[1] \div 100) + 1) * 100
                                 + CharmEnding(args.charm)
          ELSE /\ ret.value = roundToCharm(args.cents, args.charm, args.minCents)
               /\ ret.value = CharmAtOrAbove(args.cents, args.charm)

(* C10 witness: a minimum that already ends in the charm and is above the     *)
(* charm price of cents: roundToCharm keeps it, withCharm goes a dollar above *)
C10_Witness ==
    /\ call = "roundCentsToCharm" /\ Returned
    /\ DECIMALS[args.currency] = 2
    /\ OrDefault(args.charm, ".99") # "none"
    /\ MinBinds(args.cents, args.charm, args.minCents)
    /\ args.minCents[1] % 100 = CharmEnding(args.charm)
    /\ roundToCharm(args.cents, args.charm, args.minCents) = args.minCents[1]
    /\ ret.value = args.minCents[1] + 100

====
